---- MODULE Spec2Model ----
(***************************************************************************)
(* Model of the device trampoline of csrc/aio/py_lib/trampoline.h.         *)
(*                                                                         *)
(* A Trampoline owns two raw pointers: `device`, to a DeepSpeedAIOBase,    *)
(* and `handle`, the value returned by dlopen.  load_device tears the old  *)
(* pair down, opens <plugins>/<device_type>_op.so, resolves create_device  *)
(* and stores the device the factory returns.  Every other operation       *)
(* tests `device` and forwards to it.                                      *)
(*                                                                         *)
(* The heap of device objects and the loader's table of opened modules     *)
(* are modelled explicitly, so that a pointer to a destroyed object is     *)
(* distinguishable from a pointer to a live one.  Using a destroyed object *)
(* (double delete, call through a dangling pointer, dlclose of a closed    *)
(* handle) is undefined behaviour: the model chooses nondeterministically  *)
(* between the process crashing and the process carrying on.               *)
(***************************************************************************)
EXTENDS Integers, Sequences, FiniteSets, TLC

\* Number of load_device calls made on one Trampoline after its constructor.
MaxLoads == 1

\* Asynchronous operations a device may have outstanding at once.
MaxPending == 1

\* Locked buffers a device may have outstanding at once.
MaxLocked == 1

\* nullptr
Null == 0

\* Device types handed to load_device.  Each names one plugin file:
\*   "x", "y"   a module with a create_device that returns a device
\*   "nulldev"  a module whose create_device returns nullptr
\*   "nosym"    a module that does not export create_device
\*   "missing"  no such file: dlopen fails
Types == {"x", "y", "nulldev", "nosym", "missing"}

\* dlopen(lib_path, RTLD_LAZY) returns a non-null handle
CanOpen(t) == t # "missing"

\* dlsym(handle, "create_device") leaves dlerror() clear
HasSymbol(t) == t \in {"x", "y", "nulldev"}

\* create_device() returns a non-null device
FactoryReturnsDevice(t) == t \in {"x", "y"}

\* The two outcomes of undefined behaviour that are told apart.
UBOutcomes == {"crash", "benign"}

Threads == {1, 2}

\* The public operations other than load_device, by return type.
VoidOps == {"aio_read", "aio_write", "deepspeed_memcpy", "read", "write",
            "pread", "pwrite", "sync_pread", "sync_pwrite", "async_pread",
            "async_pwrite", "new_cpu_locked_tensor", "free_cpu_locked_tensor",
            "wait"}
IntQueries == {"get_block_size", "get_queue_depth", "get_thread_count"}
BoolQueries == {"get_single_submit", "get_overlap_events"}
Ops == VoidOps \cup IntQueries \cup BoolQueries

VARIABLES
    device,     \* Trampoline::device: Null or the id of a device object
    handle,     \* Trampoline::handle: Null or the id of a dlopen handle
    devices,    \* heap: device id -> [module, deletes, pending, locked]
    modules,    \* loader: handle id -> [type, closes]
    nextId,     \* next unused object id
    crashed,    \* the process has died of undefined behaviour
    trace,      \* events of the load_device / destructor call in progress
    outcome,    \* how the last load_device call returned
    phase,      \* "alive" until ~Trampoline has run, then "destroyed"
    loads,      \* load_device calls made after construction
    pre,        \* the trampoline as it was when the last call began
    last,       \* what the last forwarding operation did
    pc,         \* per thread: position inside load_device
    arg,        \* per thread: the device_type argument of its call
    fn,         \* per thread: the module whose create_device dlsym returned
    aioDevice,  \* DeepSpeedAIOTrampoline::device of the aio_handle instance
    aioPhase,   \* "alive" until the aio_handle instance is destroyed
    nvme,       \* heap of NVMEDevice objects: id -> [by, deletes]
    nvmeNext,   \* next unused NVMEDevice id
    calls,      \* binding calls made: load_device on aio_handle, module functions
    aioLast,    \* what the last call into the binding did
    moduleLoads \* device types handed to the module-level load_device so far

\* The Trampoline of trampoline.h and the objects behind it.
tvars == <<device, handle, devices, modules, nextId, crashed, trace, outcome,
           phase, loads, pre, last, pc, arg, fn>>

\* The binding of py_ds_aio.cpp and the objects behind it.
avars == <<aioDevice, aioPhase, nvme, nvmeNext, calls, aioLast, moduleLoads>>

vars == <<tvars, avars>>

-----------------------------------------------------------------------------
(* The world a step of the code reads and writes, as one record. *)

World == [device |-> device, handle |-> handle, devices |-> devices,
          modules |-> modules, nextId |-> nextId, crashed |-> crashed,
          trace |-> trace, outcome |-> outcome]

Install(w) ==
    /\ device' = w.device
    /\ handle' = w.handle
    /\ devices' = w.devices
    /\ modules' = w.modules
    /\ nextId' = w.nextId
    /\ crashed' = w.crashed
    /\ trace' = w.trace
    /\ outcome' = w.outcome

\* Device objects constructed and not yet destroyed.
Live(w) == {d \in DOMAIN w.devices : w.devices[d].deletes = 0}

\* Modules opened and not yet closed.
Open(w) == {h \in DOMAIN w.modules : w.modules[h].closes = 0}

\* One statement of the call in progress: what it did, to which object, the
\* objects live and open just before it, and for a delete the asynchronous
\* operations and locked buffers the device still had outstanding.
Event(w, ev, id) ==
    [ev |-> ev, id |-> id, live |-> Live(w), open |-> Open(w),
     pending |-> IF ev = "delete" THEN w.devices[id].pending ELSE 0,
     locked |-> IF ev = "delete" THEN w.devices[id].locked ELSE 0]

Log(w, ev, id) == Append(w.trace, Event(w, ev, id))

-----------------------------------------------------------------------------
(* Primitive effects on the heap and on the loader. *)

\* `delete d`.  Deleting an object that is already destroyed is undefined:
\* the process either dies or carries on.  Whatever the device had
\* outstanding goes with it.
DeleteDevice(w, d, ub) ==
    [w EXCEPT !.devices[d].deletes = @ + 1,
              !.devices[d].pending = 0,
              !.devices[d].locked = 0,
              !.trace = Log(w, "delete", d),
              !.crashed = (d \notin Live(w)) /\ ub = "crash"]

\* `dlclose(h)`.  Closing nullptr or a handle that is already closed is
\* undefined: the process either dies or dlclose returns an error.
Dlclose(w, h, ub) ==
    IF h = Null
    THEN [w EXCEPT !.crashed = (ub = "crash")]
    ELSE [w EXCEPT !.modules[h].closes = @ + 1,
                   !.trace = Log(w, "dlclose", h),
                   !.crashed = (h \notin Open(w)) /\ ub = "crash"]

-----------------------------------------------------------------------------
(* The statements of Trampoline::load_device, in source order. *)

\* A variant that forgets the old device.
DeleteOldSkipped(w, ub) == w

\* if (device) { delete device; }
DeleteOld(w, ub) ==
    IF w.device # Null THEN DeleteDevice(w, w.device, ub) ELSE w

\* if (handle) { dlclose(handle); }
CloseOld(w, ub) ==
    IF w.handle # Null THEN Dlclose(w, w.handle, ub) ELSE w

\* A variant that closes the module before it destroys the device.
TeardownCloseFirst(w, ub) ==
    LET w1 == CloseOld(w, ub)
    IN  IF w1.crashed THEN w1 ELSE DeleteOld(w1, ub)

\* The two statements above, one after the other.
Teardown(w, ub) ==
    LET w1 == DeleteOld(w, ub)
    IN  IF w1.crashed THEN w1 ELSE CloseOld(w1, ub)

\* handle = dlopen(lib_path.c_str(), RTLD_LAZY);
\* if (!handle) { std::cerr << "Cannot open library"; return; }
OpenNew(w, t) ==
    IF CanOpen(t)
    THEN [w EXCEPT !.handle = w.nextId,
                   !.modules = (w.nextId :> [type |-> t, closes |-> 0]) @@ @,
                   !.nextId = @ + 1,
                   !.trace = Log(w, "dlopen", w.nextId)]
    ELSE [w EXCEPT !.handle = Null, !.outcome = "openfail"]

\* create_device = dlsym(handle, "create_device"); dlsym_error = dlerror();
\* The result is the module whose factory was found, or Null when dlerror()
\* reports an error.  `handle` is read from the object: under concurrent
\* calls it may be nullptr (the global lookup then finds no create_device)
\* or already closed (undefined: the process dies or the lookup fails).
ResolveSym(w, ub) ==
    IF w.handle \in Open(w)
    THEN [w |-> w,
          fn |-> IF HasSymbol(w.modules[w.handle].type) THEN w.handle ELSE Null]
    ELSE IF w.handle = Null
    THEN [w |-> w, fn |-> Null]
    ELSE [w |-> [w EXCEPT !.crashed = (ub = "crash")], fn |-> Null]

\* A variant that drops the handle without closing it.
SymErrorPathNoClose(w, ub) ==
    [w EXCEPT !.handle = Null, !.outcome = "nosym"]

\* std::cerr << "Cannot load symbol create_device";
\* dlclose(handle); handle = nullptr; return;
SymErrorPath(w, ub) ==
    LET w1 == Dlclose(w, w.handle, ub)
    IN  IF w1.crashed THEN w1
        ELSE [w1 EXCEPT !.handle = Null, !.outcome = "nosym"]

\* device = create_device();
\* f is the module the factory belongs to; calling into a module that has
\* been unmapped kills the process.
CreateDevice(w, f) ==
    IF f \notin Open(w)
    THEN [w EXCEPT !.crashed = TRUE]
    ELSE IF FactoryReturnsDevice(w.modules[f].type)
    THEN [w EXCEPT !.device = w.nextId,
                   !.devices = (w.nextId :> [module |-> f, deletes |-> 0,
                                             pending |-> 0, locked |-> 0]) @@ @,
                   !.nextId = @ + 1,
                   !.trace = Log(w, "create", w.nextId),
                   !.outcome = "ok"]
    ELSE [w EXCEPT !.device = Null, !.outcome = "ok"]

\* The part of load_device after the old pair has been torn down.
LoadNew(w, t, ub) ==
    LET w3 == OpenNew(w, t)
        r  == ResolveSym(w3, ub)
    IN  IF w3.handle = Null THEN w3
        ELSE IF r.w.crashed THEN r.w
        ELSE IF r.fn = Null THEN SymErrorPath(r.w, ub)
        ELSE CreateDevice(r.w, r.fn)

\* void load_device(const std::string& device_type), run by one thread
\* without interruption.
LoadDevice(w, t, ub) ==
    LET w0 == [w EXCEPT !.trace = <<>>, !.outcome = "running"]
        w2 == Teardown(w0, ub)
    IN  IF w2.crashed THEN w2 ELSE LoadNew(w2, t, ub)

\* A variant that destroys the device and leaves the module open.
DestructorNoClose(w, ub) ==
    DeleteOld([w EXCEPT !.trace = <<>>], ub)

\* What load_device hands back to its caller on each way out: it is
\* declared void, and each `return;` and the end of the body return nothing.
LoadReturn(out) == "void"

\* ~Trampoline(): if (device) { delete device; } if (handle) { dlclose(handle); }
Destructor(w, ub) ==
    LET w0 == [w EXCEPT !.trace = <<>>]
        w1 == DeleteOld(w0, ub)
    IN  IF w1.crashed THEN w1 ELSE CloseOld(w1, ub)

\* What a caller can see of the trampoline and of the objects behind it.
Snapshot(w) == [device |-> w.device, handle |-> w.handle,
                live |-> Live(w), open |-> Open(w)]

-----------------------------------------------------------------------------
(* The forwarding operations. *)

\* Values a backend may return from a configuration query; -1 is the
\* contract's "unsupported" sentinel.
BackendInts == {-1, 8}

BackendRet(o) ==
    IF o \in IntQueries THEN BackendInts
    ELSE IF o \in BoolQueries THEN BOOLEAN
    ELSE {"void"}

\* A variant that answers 0 where the code answers -1.
NoDeviceRetZero(o) ==
    IF o \in IntQueries THEN 0
    ELSE IF o \in BoolQueries THEN FALSE
    ELSE "void"

\* The `else` branch of each operation: what is returned after
\* "No device loaded for <op>" has been printed.
NoDeviceRet(o) ==
    IF o \in IntQueries THEN -1
    ELSE IF o \in BoolQueries THEN FALSE
    ELSE "void"

\* A buffer that no device allocated.
Foreign == 0

\* Operations that always submit asynchronous work, and operations that do
\* so when their `async` argument is true.
AsyncOps == {"async_pread", "async_pwrite"}
PositionalOps == {"pread", "pwrite"}

\* Operation o called with argument x (the `async` flag as 0 or 1, or the
\* buffer handed to free_cpu_locked_tensor) submits asynchronous work.
Submits(o, x) == o \in AsyncOps \/ (o \in PositionalOps /\ x = 1)

\* The device contract: what operation o does to the state of the device
\* dv it is called on.  An asynchronous submission is outstanding until
\* wait(); a locked buffer is outstanding until it is freed; freeing a
\* buffer the device does not know changes nothing.
BackendEffect(dv, o, x) ==
    IF Submits(o, x) THEN [dv EXCEPT !.pending = @ + 1]
    ELSE IF o = "wait" THEN [dv EXCEPT !.pending = 0]
    ELSE IF o = "new_cpu_locked_tensor" THEN [dv EXCEPT !.locked = @ + 1]
    ELSE IF o = "free_cpu_locked_tensor" /\ x \in 1..dv.locked
    THEN [dv EXCEPT !.locked = @ - 1]
    ELSE dv

\* A result with its type, so that results of different types compare.
Result(kind, val) == [kind |-> kind, val |-> val]

NoResult == Result("void", 0)

\* The device contract: what operation o of device dv hands back.  wait()
\* gives the number of operations it completed, new_cpu_locked_tensor the
\* buffer it allocated, a query the value r.
BackendResult(dv, o, r) ==
    IF o \in IntQueries THEN Result("int", r)
    ELSE IF o \in BoolQueries THEN Result("bool", r)
    ELSE IF o = "wait" THEN Result("int", dv.pending)
    ELSE IF o = "new_cpu_locked_tensor" THEN Result("buf", dv.locked + 1)
    ELSE NoResult

\* if (device) return device-><op>(...); else { std::cerr << ...; return <sentinel>; }
\* r is what the backend returns to the trampoline when it is called; the
\* void operations call the device and return nothing.  `given` is the
\* argument x of the call, `backend` what the device's operation handed
\* back.
Dispatch(w, o, r, x) ==
    IF w.device # Null
    THEN [op |-> o, given |-> x, target |-> w.device,
          targetLive |-> w.device \in Live(w),
          ret |-> r, reported |-> FALSE,
          backend |-> IF w.device \in Live(w)
                      THEN BackendResult(w.devices[w.device], o, r)
                      ELSE NoResult]
    ELSE [op |-> o, given |-> x, target |-> Null, targetLive |-> FALSE,
          ret |-> NoDeviceRet(o), reported |-> TRUE, backend |-> NoResult]

\* What operation o returned to its caller, with its type: the return type
\* of the operation's declaration.
Returned(l) ==
    IF l.op \in IntQueries THEN Result("int", l.ret)
    ELSE IF l.op \in BoolQueries THEN Result("bool", l.ret)
    ELSE NoResult

\* The locked buffers a caller can name: the one the call it has just made
\* returned to it, if that call returned a buffer.
Held(l) == IF Returned(l).kind = "buf" THEN {Returned(l).val} ELSE {}

\* The arguments of operation o that matter to the device: the `async`
\* flag of pread / pwrite, the buffer given to free_cpu_locked_tensor.
CallerArgs(o, l) ==
    IF o \in PositionalOps THEN {0, 1}
    ELSE IF o = "free_cpu_locked_tensor" THEN {Foreign} \cup Held(l)
    ELSE {0}

\* The device can take the call: its outstanding work stays within bounds.
WithinBounds(w, o, x) ==
    (w.device \in Live(w))
        => /\ Submits(o, x) => w.devices[w.device].pending < MaxPending
           /\ o = "new_cpu_locked_tensor"
                 => w.devices[w.device].locked < MaxLocked

\* A variant in which an operation forgets the device it forwarded to.
OpEffectDropsDevice(w, o, x, ub) ==
    [w EXCEPT !.device = Null]

\* The trampoline and the heap after operation o called with argument x.
\* With a live device the device carries the operation out.  A call through
\* a pointer to a destroyed device is undefined: the process dies or
\* carries on.
OpEffect(w, o, x, ub) ==
    IF w.device = Null THEN w
    ELSE IF w.device \in Live(w)
    THEN [w EXCEPT !.devices[w.device] = BackendEffect(@, o, x)]
    ELSE [w EXCEPT !.crashed = (ub = "crash")]

-----------------------------------------------------------------------------
(* The binding layer of py_ds_aio.cpp: class DeepSpeedAIOTrampoline, bound  *)
(* as `aio_handle`, and the module-level functions.  It holds one pointer, *)
(* `device`, to an NVMEDevice it allocates itself.  A trampoline is the    *)
(* record [device, owner, heap, nextId]: its pointer, who constructed it   *)
(* ("handle" for the aio_handle instance, "module" for the local object of *)
(* a module-level function), and the heap of NVMEDevice objects.           *)

\* Number of load_device calls on the aio_handle instance plus calls of
\* module-level functions.
MaxBindingCalls == 3

\* Device types handed to the binding's load_device: the one it knows and
\* one it does not.
AioTypes == {"nvme", "gds"}

\* The functions bound directly on the module.
ModuleIO == {"aio_write", "aio_read", "deepspeed_memcpy"}
ModuleFunctions == ModuleIO \cup {"load_device"}

\* NVMEDevice objects constructed and not yet destroyed.
AioLive(b) == {d \in DOMAIN b.heap : b.heap[d].deletes = 0}

\* device = new NVMEDevice();
NewNVMEDevice(b) ==
    [b EXCEPT !.device = b.nextId,
              !.heap = (b.nextId :> [by |-> b.owner, deletes |-> 0]) @@ @,
              !.nextId = @ + 1]

\* void DeepSpeedAIOTrampoline::load_device(const std::string& device_type):
\* if (device_type == "nvme") device = new NVMEDevice();
\* else std::cerr << "Unknown device type";
AioLoadDevice(b, t) ==
    IF t = "nvme" THEN NewNVMEDevice(b) ELSE b

\* load_device printed "Unknown device type".
AioLoadReported(t) == t # "nvme"

\* DeepSpeedAIOTrampoline() : device(nullptr) { load_device("nvme"); }
AioConstruct(b, who) ==
    AioLoadDevice([b EXCEPT !.device = Null, !.owner = who], "nvme")

\* ~DeepSpeedAIOTrampoline() { if (device) { delete device; } }
AioDestruct(b) ==
    IF b.device # Null
    THEN [b EXCEPT !.heap[b.device].deletes = @ + 1]
    ELSE b

\* A variant in which the module-level functions share the trampoline they
\* are handed instead of constructing their own.
ModuleTrampolineShared(b) == b

\* `DeepSpeedAIOTrampoline aio;` at the top of each module-level lambda.
ModuleTrampoline(b) == AioConstruct(b, "module")

\* The body of a module-level lambda after `aio` is constructed:
\* aio.load_device(device_type) for load_device, a forwarding call for the
\* others, which leaves the trampoline as it is.
ModuleBody(b, f, t) ==
    IF f = "load_device" THEN AioLoadDevice(b, t) ELSE b

\* One call of module-level function f: construct `aio`, run the body,
\* destroy `aio` at the closing brace.  The record gives the trampoline at
\* each of these points.
ModuleCall(b, f, t) ==
    LET made == ModuleTrampoline(b)
        ran  == ModuleBody(made, f, t)
    IN  [made |-> made, ran |-> ran, gone |-> AioDestruct(ran)]

\* The binding's heap before anything is constructed.
AioEmpty == [device |-> Null, owner |-> "none",
             heap |-> [d \in {} |-> [by |-> "none", deletes |-> 0]],
             nextId |-> 1]

AioNoCall == [fn |-> "none", scope |-> "none", t |-> "none", before |-> Null,
              existing |-> {}, made |-> Null, used |-> Null,
              usedLive |-> FALSE, held |-> Null, reported |-> FALSE]

\* No binding object exists (the states of Spec and SpecConc).
AioAbsent ==
    /\ aioDevice = Null
    /\ aioPhase = "absent"
    /\ nvme = AioEmpty.heap
    /\ nvmeNext = 1
    /\ calls = 0
    /\ aioLast = AioNoCall
    /\ moduleLoads = {}

-----------------------------------------------------------------------------
(* Construction. *)

\* Trampoline(device_type) : device(nullptr), handle(nullptr)
Empty == [device |-> Null, handle |-> Null,
          devices |-> [d \in {} |-> [module |-> Null, deletes |-> 0,
                                     pending |-> 0, locked |-> 0]],
          modules |-> [h \in {} |-> [type |-> "", closes |-> 0]],
          nextId |-> 1, crashed |-> FALSE, trace |-> <<>>, outcome |-> "none"]

NoCall == [op |-> "none", given |-> 0, target |-> Null, targetLive |-> FALSE,
           ret |-> "void", reported |-> FALSE, backend |-> NoResult]

\* The state once the constructor, which calls load_device(device_type),
\* has returned.
Init ==
    \E t \in Types :
        LET w == LoadDevice(Empty, t, "benign")
        IN  /\ device = w.device
            /\ handle = w.handle
            /\ devices = w.devices
            /\ modules = w.modules
            /\ nextId = w.nextId
            /\ crashed = w.crashed
            /\ trace = w.trace
            /\ outcome = w.outcome
            /\ phase = "alive"
            /\ loads = 0
            /\ pre = Snapshot(Empty)
            /\ last = NoCall
            /\ pc = [th \in Threads |-> "idle"]
            /\ arg = [th \in Threads |-> "none"]
            /\ fn = [th \in Threads |-> Null]
            /\ AioAbsent

\* The process is running, the object exists and no call is in progress.
Callable ==
    /\ phase = "alive"
    /\ ~crashed
    /\ \A th \in Threads : pc[th] = "idle"

-----------------------------------------------------------------------------
(* Calls made by a single caller: each runs to its return. *)

load_device(t, ub) ==
    /\ Callable
    /\ loads < MaxLoads
    /\ Install(LoadDevice(World, t, ub))
    /\ loads' = loads + 1
    /\ pre' = Snapshot(World)
    /\ UNCHANGED <<phase, last, pc, arg, fn>>
    /\ UNCHANGED avars

\* Any of the forwarding operations; r is what the backend would return.
Forward(o, r, x, ub) ==
    /\ Callable
    /\ WithinBounds(World, o, x)
    /\ Install(OpEffect(World, o, x, ub))
    /\ last' = Dispatch(World, o, r, x)
    /\ UNCHANGED <<phase, loads, pre, pc, arg, fn>>
    /\ UNCHANGED avars

DestroyTrampoline(ub) ==
    /\ Callable
    /\ Install(Destructor(World, ub))
    /\ phase' = "destroyed"
    /\ pre' = Snapshot(World)
    /\ UNCHANGED <<loads, last, pc, arg, fn>>
    /\ UNCHANGED avars

Next ==
    \/ \E t \in Types, ub \in UBOutcomes : load_device(t, ub)
    \/ \E o \in Ops, ub \in UBOutcomes :
          \E r \in BackendRet(o), x \in CallerArgs(o, last) : Forward(o, r, x, ub)
    \/ \E ub \in UBOutcomes : DestroyTrampoline(ub)

Spec == Init /\ [][Next]_vars

-----------------------------------------------------------------------------
(* Two threads calling load_device on the same Trampoline.  The code takes *)
(* no lock, so the statements of the two calls interleave; each thread     *)
(* makes one call.                                                         *)

Running(th) == phase = "alive" /\ ~crashed

Goto(th, label) == pc' = [pc EXCEPT ![th] = label]

\* Thread th enters load_device(t).
Enter(th, t) ==
    /\ Running(th)
    /\ pc[th] = "idle"
    /\ Goto(th, "delete")
    /\ arg' = [arg EXCEPT ![th] = t]
    /\ UNCHANGED <<device, handle, devices, modules, nextId, crashed, trace,
                   outcome, phase, loads, pre, last, fn>>
    /\ UNCHANGED avars

\* if (device) { delete device; }
StepDelete(th, ub) ==
    /\ Running(th)
    /\ pc[th] = "delete"
    /\ Install(DeleteOld(World, ub))
    /\ Goto(th, "close")
    /\ UNCHANGED <<phase, loads, pre, last, arg, fn>>
    /\ UNCHANGED avars

\* if (handle) { dlclose(handle); }
StepClose(th, ub) ==
    /\ Running(th)
    /\ pc[th] = "close"
    /\ Install(CloseOld(World, ub))
    /\ Goto(th, "open")
    /\ UNCHANGED <<phase, loads, pre, last, arg, fn>>
    /\ UNCHANGED avars

\* handle = dlopen(...); if (!handle) return;
StepOpen(th) ==
    /\ Running(th)
    /\ pc[th] = "open"
    /\ LET w == OpenNew(World, arg[th])
       IN  /\ Install(w)
           /\ Goto(th, IF w.handle = Null THEN "done" ELSE "sym")
    /\ UNCHANGED <<phase, loads, pre, last, arg, fn>>
    /\ UNCHANGED avars

\* create_device = dlsym(handle, "create_device"); dlsym_error = dlerror();
StepSym(th, ub) ==
    /\ Running(th)
    /\ pc[th] = "sym"
    /\ LET r == ResolveSym(World, ub)
       IN  /\ Install(r.w)
           /\ fn' = [fn EXCEPT ![th] = r.fn]
           /\ Goto(th, IF r.fn = Null THEN "symerr" ELSE "create")
    /\ UNCHANGED <<phase, loads, pre, last, arg>>
    /\ UNCHANGED avars

\* dlclose(handle); handle = nullptr; return;
StepSymError(th, ub) ==
    /\ Running(th)
    /\ pc[th] = "symerr"
    /\ Install(SymErrorPath(World, ub))
    /\ Goto(th, "done")
    /\ UNCHANGED <<phase, loads, pre, last, arg, fn>>
    /\ UNCHANGED avars

\* device = create_device();
StepCreate(th) ==
    /\ Running(th)
    /\ pc[th] = "create"
    /\ Install(CreateDevice(World, fn[th]))
    /\ Goto(th, "done")
    /\ UNCHANGED <<phase, loads, pre, last, arg, fn>>
    /\ UNCHANGED avars

NextConc ==
    \/ \E th \in Threads, t \in Types : Enter(th, t)
    \/ \E th \in Threads, ub \in UBOutcomes : StepDelete(th, ub)
    \/ \E th \in Threads, ub \in UBOutcomes : StepClose(th, ub)
    \/ \E th \in Threads : StepOpen(th)
    \/ \E th \in Threads, ub \in UBOutcomes : StepSym(th, ub)
    \/ \E th \in Threads, ub \in UBOutcomes : StepSymError(th, ub)
    \/ \E th \in Threads : StepCreate(th)

SpecConc == Init /\ [][NextConc]_vars

-----------------------------------------------------------------------------
(* The binding: one aio_handle instance and the module-level functions. *)

\* The aio_handle instance as a trampoline record.
AioWorld == [device |-> aioDevice, owner |-> "handle",
             heap |-> nvme, nextId |-> nvmeNext]

\* No Trampoline of trampoline.h exists (the states of SpecBinding).
TrampolineAbsent ==
    /\ device = Null
    /\ handle = Null
    /\ devices = Empty.devices
    /\ modules = Empty.modules
    /\ nextId = 1
    /\ crashed = FALSE
    /\ trace = <<>>
    /\ outcome = "none"
    /\ phase = "absent"
    /\ loads = 0
    /\ pre = Snapshot(Empty)
    /\ last = NoCall
    /\ pc = [th \in Threads |-> "idle"]
    /\ arg = [th \in Threads |-> "none"]
    /\ fn = [th \in Threads |-> Null]

\* The state once aio_handle() (py::init<>) has constructed the instance.
InitBinding ==
    LET b == AioConstruct(AioEmpty, "handle")
    IN  /\ TrampolineAbsent
        /\ aioDevice = b.device
        /\ aioPhase = "alive"
        /\ nvme = b.heap
        /\ nvmeNext = b.nextId
        /\ calls = 0
        /\ aioLast = AioNoCall
        /\ moduleLoads = {}

\* aio_handle.load_device(t)
AioHandleLoadDevice(t) ==
    /\ aioPhase = "alive"
    /\ calls < MaxBindingCalls
    /\ LET b == AioLoadDevice(AioWorld, t)
       IN  /\ aioDevice' = b.device
           /\ nvme' = b.heap
           /\ nvmeNext' = b.nextId
    /\ calls' = calls + 1
    /\ aioLast' = [AioNoCall EXCEPT !.fn = "load_device", !.scope = "handle",
                                    !.t = t, !.before = aioDevice,
                                    !.existing = DOMAIN nvme,
                                    !.reported = AioLoadReported(t)]
    /\ UNCHANGED <<aioPhase, moduleLoads>>
    /\ UNCHANGED tvars

\* Any forwarding method of aio_handle:
\* if (device) device-><op>(...); else std::cerr << "No device loaded";
AioHandleForward(o) ==
    /\ aioPhase = "alive"
    /\ aioLast' = [AioNoCall EXCEPT !.fn = o, !.scope = "handle",
                                    !.before = aioDevice,
                                    !.existing = DOMAIN nvme,
                                    !.used = aioDevice,
                                    !.usedLive = aioDevice \in AioLive(AioWorld),
                                    !.reported = (aioDevice = Null)]
    /\ UNCHANGED <<aioDevice, aioPhase, nvme, nvmeNext, calls, moduleLoads>>
    /\ UNCHANGED tvars

\* The aio_handle instance is destroyed.
AioHandleDestroy ==
    /\ aioPhase = "alive"
    /\ LET b == AioDestruct(AioWorld)
       IN  /\ nvme' = b.heap
           /\ nvmeNext' = b.nextId
    /\ aioPhase' = "destroyed"
    /\ aioLast' = [AioNoCall EXCEPT !.fn = "destroy", !.scope = "handle",
                                    !.before = aioDevice,
                                    !.existing = DOMAIN nvme,
                                    !.held = aioDevice]
    /\ UNCHANGED <<aioDevice, calls, moduleLoads>>
    /\ UNCHANGED tvars

\* A call of module-level function f (with device type t for load_device).
\* The lambda's trampoline is a local object: the aio_handle instance's
\* pointer is not touched.
ModuleFunction(f, t) ==
    /\ calls < MaxBindingCalls
    /\ LET c == ModuleCall(AioWorld, f, t)
       IN  /\ nvme' = c.gone.heap
           /\ nvmeNext' = c.gone.nextId
           /\ aioLast' =
                [AioNoCall EXCEPT
                    !.fn = f, !.scope = "module", !.t = t,
                    !.before = aioDevice,
                    !.existing = DOMAIN nvme,
                    !.made = c.made.device,
                    !.used = IF f \in ModuleIO THEN c.ran.device ELSE Null,
                    !.usedLive = f \in ModuleIO /\ c.ran.device \in AioLive(c.ran),
                    !.held = c.ran.device,
                    !.reported = IF f = "load_device" THEN AioLoadReported(t)
                                 ELSE c.ran.device = Null]
    /\ calls' = calls + 1
    /\ moduleLoads' = IF f = "load_device" THEN moduleLoads \cup {t}
                      ELSE moduleLoads
    /\ UNCHANGED <<aioDevice, aioPhase>>
    /\ UNCHANGED tvars

NextBinding ==
    \/ \E t \in AioTypes : AioHandleLoadDevice(t)
    \/ \E o \in Ops : AioHandleForward(o)
    \/ AioHandleDestroy
    \/ \E f \in ModuleIO : ModuleFunction(f, "none")
    \/ \E t \in AioTypes : ModuleFunction("load_device", t)

SpecBinding == InitBinding /\ [][NextBinding]_vars

-----------------------------------------------------------------------------
(* Properties of a Trampoline used by a single caller (Spec). *)

\* The last call was a load_device made after construction, and it failed.
LastLoadFailed ==
    /\ phase = "alive"
    /\ loads >= 1
    /\ outcome \in {"openfail", "nosym"}

\* The last call was a load_device made after construction, and it stored
\* the device its factory returned.
LastLoadSucceeded ==
    /\ phase = "alive"
    /\ loads >= 1
    /\ outcome = "ok"

\* C1: a load_device call that fails leaves the previous state unchanged: a
\* device that was live and active before the call is still live and still
\* the active device, and its module is still open and still held.
C1_FailedLoadKeepsState ==
    (LastLoadFailed /\ pre.device \in pre.live /\ pre.handle \in pre.open)
        => /\ device = pre.device
           /\ handle = pre.handle
           /\ pre.device \in Live(World)
           /\ pre.handle \in Open(World)

\* C2: every operation is either forwarded to a device that is live at the
\* time of the call, or reports "no device loaded" and calls no backend.
C2_ForwardOnlyToLive ==
    last.op \in Ops
        => \/ last.target = Null /\ last.reported
           \/ last.target # Null /\ last.targetLive /\ ~last.reported

\* No load_device call, the constructor's included, has reached
\* `device = create_device()`: a call gets there exactly when the module it
\* opens exports create_device.
NoLoadSucceeded ==
    \A h \in DOMAIN modules : ~HasSymbol(modules[h].type)

\* C3: while no load_device call has succeeded, no device is held, and every
\* operation reports the no-device condition, calls no backend and returns
\* its sentinel: -1 from the integer queries, false from the boolean ones.
C3_NoDeviceBeforeLoad ==
    NoLoadSucceeded
        => /\ device = Null
           /\ last.op \in Ops
                => /\ last.reported
                   /\ last.target = Null
                   /\ last.op \in IntQueries => last.ret = -1
                   /\ last.op \in BoolQueries => last.ret = FALSE

\* C3 witness: after a failed constructor load and a failed later load,
\* get_block_size has been called and has answered -1.
C3_Witness ==
    /\ NoLoadSucceeded
    /\ LastLoadFailed
    /\ last.op = "get_block_size"
    /\ last.reported
    /\ last.ret = -1

\* C4: at most one device is live and at most one module is open; after a
\* load_device that stored a device, that device is the only live one, the
\* module that created it is the only open one and is the one held, and the
\* pair held before the call has been destroyed and closed.
C4_AtMostOnePair ==
    /\ Cardinality(Live(World)) <= 1
    /\ Cardinality(Open(World)) <= 1
    /\ (LastLoadSucceeded /\ device # Null)
         => /\ Live(World) = {device}
            /\ Open(World) = {handle}
            /\ devices[device].module = handle
            /\ pre.live \cap Live(World) = {}
            /\ pre.open \cap Open(World) = {}

\* C4 witness: a trampoline holding a live "x" device has loaded "y".
C4_Witness ==
    /\ LastLoadSucceeded
    /\ pre.device \in pre.live
    /\ pre.handle \in pre.open
    /\ modules[pre.handle].type = "x"
    /\ handle \in Open(World)
    /\ modules[handle].type = "y"
    /\ device \in Live(World)

\* The old pair was live when the call began.
ReplacedLivePair == pre.device \in pre.live /\ pre.handle \in pre.open

\* C5: in a successful load_device the old device is destroyed and the old
\* module closed only once the new module is open and the new device
\* constructed.
C5_ReleaseAfterNewLive ==
    (LastLoadSucceeded /\ device # Null /\ ReplacedLivePair)
        => \A i \in DOMAIN trace :
              (/\ trace[i].ev \in {"delete", "dlclose"}
               /\ trace[i].id \in {pre.device, pre.handle})
                  => /\ device \in trace[i].live
                     /\ handle \in trace[i].open

\* C6: no module is closed while a device created from it is live.  Every
\* dlclose of the call in progress finds no live device of that module.
C6_NoCloseUnderLiveDevice ==
    \A i \in DOMAIN trace :
        trace[i].ev = "dlclose"
            => \A d \in trace[i].live : devices[d].module # trace[i].id

\* C6 witness: a load_device has closed the module of a device that was
\* live when the call began.
C6_Witness ==
    /\ phase = "alive"
    /\ loads >= 1
    /\ ReplacedLivePair
    /\ \E i \in DOMAIN trace :
          /\ trace[i].ev = "dlclose"
          /\ trace[i].id = pre.handle
          /\ devices[pre.device].module = pre.handle

\* C8: once the Trampoline is destroyed no device is live and no module is
\* open.
C8_DestructorReleasesAll ==
    phase = "destroyed" => Live(World) = {} /\ Open(World) = {}

\* C8 witness: a Trampoline that held a live device and its open module,
\* after at least one later load_device call, has been destroyed.
C8_Witness ==
    /\ phase = "destroyed"
    /\ loads >= 1
    /\ ReplacedLivePair
    /\ ~crashed

\* C9: a failed load_device leaves no module open and holds no handle; the
\* module a missing-symbol call opened is closed within the call.
C9_FailedLoadLeavesNoModuleOpen ==
    (phase = "alive" /\ outcome \in {"openfail", "nosym"})
        => /\ handle = Null
           /\ Open(World) = {}
           /\ \A i \in DOMAIN trace :
                 trace[i].ev = "dlopen"
                     => \E j \in DOMAIN trace :
                           /\ j > i
                           /\ trace[j].ev = "dlclose"
                           /\ trace[j].id = trace[i].id

\* C9 witness: a load_device on a trampoline with an open module has opened
\* a module without create_device and returned.
C9_Witness ==
    /\ LastLoadFailed
    /\ outcome = "nosym"
    /\ pre.handle \in pre.open
    /\ \E i \in DOMAIN trace :
          trace[i].ev = "dlopen" /\ modules[trace[i].id].type = "nosym"

\* C10: only load_device and destruction change which pair is held: a step
\* that is neither (every forwarding operation is such a step) changes
\* neither the device pointer nor the module handle.
C10_OpsLeavePairUnchanged ==
    [][(loads' = loads /\ phase' = phase)
        => (device' = device /\ handle' = handle)]_vars

\* C10 witness: an operation has been forwarded to the active device, which
\* is still the active device.
C10_Witness ==
    /\ last.op \in Ops
    /\ last.target # Null
    /\ last.targetLive
    /\ device = last.target
    /\ handle \in Open(World)

\* The last call on the trampoline that changed the pair was a load_device
\* made after construction (whether or not operations followed it).
LoadTrace == phase = "alive" /\ loads >= 1

\* C11: load_device does not destroy a device that still has asynchronous
\* operations outstanding: every delete it performs finds none pending.
C11_NoTeardownWithPendingWork ==
    LoadTrace
        => \A i \in DOMAIN trace :
              trace[i].ev = "delete" => trace[i].pending = 0

\* Two results are the same: same type, same value.
SameResult(a, b) == a.kind = b.kind /\ a.val = b.val

\* C12: failures can be told from success by what is returned: what an
\* operation returns with no device loaded is never what it returns from a
\* successful call on a loaded device, and load_device returns different
\* outcomes for success, module-open failure and missing-symbol failure.
C12_FailureDistinguishable ==
    /\ (last.op \in Ops /\ last.targetLive)
          => last.ret # NoDeviceRet(last.op)
    /\ (loads >= 1 /\ outcome \in {"ok", "openfail", "nosym"})
          => \A other \in {"ok", "openfail", "nosym"} \ {outcome} :
                LoadReturn(outcome) # LoadReturn(other)

\* C13: with a device active, an operation returns to its caller exactly
\* what the device's operation returned: wait() the count of completed
\* operations, new_cpu_locked_tensor the buffer allocated.
C13_ReturnsDeviceResult ==
    (last.op \in Ops /\ last.targetLive)
        => SameResult(Returned(last), last.backend)

\* C14: a new_cpu_locked_tensor immediately followed, on the same live
\* device, by the free_cpu_locked_tensor of that buffer leaves the device
\* with no locked buffer outstanding; the buffer handed to free is the one
\* the allocation produced.
C14_AllocThenFreeLeavesNone ==
    [][(/\ last.op = "new_cpu_locked_tensor"
        /\ last.targetLive
        /\ device = last.target
        /\ device \in Live(World)
        /\ devices[device].locked = 1
        /\ last'.op = "free_cpu_locked_tensor"
        /\ loads' = loads
        /\ phase' = phase)
        => /\ last'.given = last.backend.val
           /\ devices'[device].locked = 0]_vars

\* C15: load_device never tears a device down while locked buffers
\* allocated through it are outstanding (the code has no way to report a
\* usage error, so tearing down is tearing down silently).
C15_NoTeardownWithLockedBuffers ==
    LoadTrace
        => \A i \in DOMAIN trace :
              trace[i].ev = "delete" => trace[i].locked = 0

\* C16: every device is destroyed at most once and every module is closed
\* at most once.
C16_NoDoubleRelease ==
    /\ \A d \in DOMAIN devices : devices[d].deletes <= 1
    /\ \A h \in DOMAIN modules : modules[h].closes <= 1

\* C17: a non-null device pointer comes with a non-null handle to the open
\* module that created the device.
C17_DeviceHasItsModule ==
    (phase = "alive" /\ device # Null)
        => /\ handle # Null
           /\ handle \in Open(World)
           /\ devices[device].module = handle

-----------------------------------------------------------------------------
(* Properties of two concurrent load_device calls (SpecConc). *)

\* Both threads have returned from load_device and the process is running.
BothReturned == ~crashed /\ \A th \in Threads : pc[th] = "done"

\* C7: two concurrent load_device calls of loadable device types end with
\* exactly one device active, no module closed twice or left open without
\* being held, and no device destroyed twice or left live without being
\* held.
C7_ConcurrentLoadsSerialize ==
    (BothReturned /\ \A th \in Threads : arg[th] \in {"x", "y"})
        => /\ device \in Live(World)
           /\ Live(World) = {device}
           /\ Open(World) = {handle}
           /\ \A d \in DOMAIN devices : devices[d].deletes <= 1
           /\ \A h \in DOMAIN modules : modules[h].closes <= 1

-----------------------------------------------------------------------------
(* Properties of the binding (SpecBinding). *)

\* C18: once the aio_handle instance is destroyed, every device it
\* constructed has been destroyed exactly once; and its load_device with an
\* unknown device type reports an error and leaves the active device as it
\* was.
C18_BindingReleasesAll ==
    /\ aioPhase = "destroyed"
          => \A d \in DOMAIN nvme :
                nvme[d].by = "handle" => nvme[d].deletes = 1
    /\ (aioLast.scope = "handle" /\ aioLast.fn = "load_device"
                                 /\ aioLast.t # "nvme")
          => /\ aioLast.reported
             /\ aioDevice = aioLast.before
             /\ aioDevice \in AioLive(AioWorld)

\* C19: a module-level function runs on a trampoline of its own: the
\* constructor of that call allocates a new "nvme" device, aio_read,
\* aio_write and deepspeed_memcpy are forwarded to that device and to no
\* other, the device the trampoline holds at the end of the call is
\* destroyed, and the aio_handle instance is not touched, whatever
\* module-level load_device calls came before.
C19_ModuleFunctionsUseOwnDefault ==
    aioLast.scope = "module"
        => /\ aioLast.made # Null
           /\ aioLast.made \notin aioLast.existing
           /\ nvme[aioLast.made].by = "module"
           /\ aioLast.fn \in ModuleIO
                 => /\ aioLast.used = aioLast.made
                    /\ aioLast.usedLive
                    /\ ~aioLast.reported
           /\ aioLast.held \in DOMAIN nvme
           /\ nvme[aioLast.held].deletes = 1
           /\ aioDevice = aioLast.before

\* C19 witness: after a module-level load_device("nvme"), a module-level
\* aio_read has run on the device its own constructor allocated.
C19_Witness ==
    /\ "nvme" \in moduleLoads
    /\ aioLast.scope = "module"
    /\ aioLast.fn = "aio_read"
    /\ aioLast.used = aioLast.made
    /\ aioLast.usedLive

====
